---- MODULE Spec2Model ----
(***************************************************************************)
(* PolyScalping server (src/polyscalping/server.py): the file-based job    *)
(* store, the ten-step analysis pipeline run_full_analysis, and the two    *)
(* polling endpoints, as one state machine.                                *)
(*                                                                         *)
(* Python values are tagged records so that None, numbers, strings and     *)
(* dicts can be told apart and compared: None, Num(n), Str(s), Dict(d).    *)
(* A job record is a function from field names to such values.             *)
(***************************************************************************)
EXTENDS Integers, Sequences, FiniteSets, TLC

VARIABLES
    files,    \* directory JOBS_DIR: path -> the file linked there (a text of JSON tokens)
    pc,       \* position of the request thread / pipeline thread of the job
    call,     \* the job-store call (_save_job / _update_job) the writer is inside
    L,        \* locals of api_analyze and run_full_analysis
    rd,       \* the polling client: its request in flight and the last step it saw
    committed, \* history: the record of the last completed _save_job of the job
    calc      \* a call of a function of the numeric core: its name, arguments, result

vars == <<files, pc, call, L, rd, committed, calc>>

----------------------------------------------------------------------------
(* Bounds of the model *)

\* number of JSON tokens one write() of the buffered file object carries
ChunkTokens == 5

----------------------------------------------------------------------------
(* Python values *)

None == [t |-> "none"]
Num(n) == [t |-> "int", n |-> n]
Str(s) == [t |-> "str", s |-> s]
Dict(d) == [t |-> "dict", d |-> d]
\* a value json cannot serialise natively (handled by default=str)
Obj(r) == [t |-> "obj", r |-> r]

\* truth value of a loaded job (`if job:` / `if not job:`): None and {} are falsy
Truthy(job) == job # None /\ DOMAIN job # {}

----------------------------------------------------------------------------
(* json.dump / json.load of a job record *)

\* key order of the dict: insertion order of api_analyze's record, then
\* the key the exception handler adds
FieldOrder == <<"status", "step", "total_steps", "step_label", "result", "error", "traceback">>

\* one "key": value member of the JSON text
json_member(k, v) ==
    CASE v.t = "none" -> [j |-> "null", k |-> k]
      [] v.t = "int"  -> [j |-> "number", k |-> k, n |-> v.n]
      [] v.t = "str"  -> [j |-> "string", k |-> k, s |-> v.s]
      [] v.t = "dict" -> [j |-> "object", k |-> k, d |-> v.d]
      [] OTHER        -> [j |-> "string", k |-> k, s |-> v.r]

\* json.dump(job_data, f, default=str): the text, token by token
json_dump(job) ==
    LET keys == SelectSeq(FieldOrder, LAMBDA k : k \in DOMAIN job)
    IN  <<[j |-> "{"]>>
        \o [i \in 1..Len(keys) |-> json_member(keys[i], job[keys[i]])]
        \o <<[j |-> "}"]>>

json_value(tok) ==
    CASE tok.j = "null"   -> None
      [] tok.j = "number" -> Num(tok.n)
      [] tok.j = "string" -> Str(tok.s)
      [] tok.j = "object" -> Dict(tok.d)

\* a text json.load accepts: a whole object, from its opening to its closing brace
json_wellformed(text) ==
    /\ Len(text) >= 2
    /\ text[1].j = "{"
    /\ text[Len(text)].j = "}"
    /\ \A i \in 2..(Len(text) - 1) : text[i].j \notin {"{", "}"}

\* json.load(f); a text that is not a whole object raises JSONDecodeError,
\* which _load_job turns into None
json_load(text) ==
    IF json_wellformed(text)
    THEN LET members == {text[i] : i \in 2..(Len(text) - 1)}
         IN  [k \in {m.k : m \in members} |->
                 json_value(CHOOSE m \in members : m.k = k)]
    ELSE None

----------------------------------------------------------------------------
(* The job store: files of JOBS_DIR *)

\* the job id api_analyze issues (uuid4), and an id no job was ever created with
JobId == "j1"
UnknownId == "ghost"

_job_path(job_id) == <<job_id, ".json">>

\* mutant: write the record in place instead of to a temporary file
tmp_path_in_place(path) == path

tmp_path(path) == path \o <<".tmp">>

Paths == {_job_path(JobId), tmp_path(_job_path(JobId)), _job_path(UnknownId)}

\* a path without a directory entry, and a file with its text so far
Absent == [exists |-> FALSE, text |-> <<>>]
File(text) == [exists |-> TRUE, text |-> text]

\* mutant: job.update(updates) replaced by the updates alone
dict_update_replace(job, updates) == updates

\* job.update(updates)
dict_update(job, updates) ==
    [k \in DOMAIN job \cup DOMAIN updates |->
        IF k \in DOMAIN updates THEN updates[k] ELSE job[k]]

\* _load_job as one step (the caller is the only writer of the path)
_load_job(job_id) ==
    LET f == files[_job_path(job_id)]
    IN  IF ~f.exists THEN None ELSE json_load(f.text)

----------------------------------------------------------------------------
(* Job records written by api_analyze and run_full_analysis *)

PIPELINE_STEPS == <<
    "Fetching Polymarket event data...",
    "Fetching stock/asset data...",
    "Running probability models...",
    "Fetching sports odds (if applicable)...",
    "Searching Kalshi for cross-platform opportunities...",
    "Tracking whale wallets on Polygon...",
    "Fetching CLOB orderbook depth...",
    "Calculating Kelly sizing & strategy...",
    "Generating AI analysis report...",
    "Finalizing results..." >>

total_steps == Len(PIPELINE_STEPS)

\* the record api_analyze creates
InitialRecord ==
    [status |-> Str("running"), step |-> Num(0), total_steps |-> Num(total_steps),
     step_label |-> Str("Starting..."), result |-> None, error |-> None]

\* mutant: the progress update moves the counter and leaves the label
StepUpdate_noLabel(k) == [step |-> Num(k)]

\* the progress update at the head of step k
StepUpdate(k) == [step |-> Num(k), step_label |-> Str(PIPELINE_STEPS[k])]

\* mutant: the fatal path of step 1 reports the failure in the label only
NotFoundUpdate_labelOnly == [step_label |-> Str("Event not found")]

\* mutant: the event-not-found update forgets the status
NotFoundUpdate_noStatus == [error |-> Str("Event not found")]

\* the update of the fatal path of step 1
NotFoundUpdate == [status |-> Str("error"), error |-> Str("Event not found")]

\* mutant: the final update forgets the status
FinalUpdate_noStatus(result) ==
    [step |-> Num(10), step_label |-> Str("Analysis complete!"), result |-> result]

\* the update that ends step 10
FinalUpdate(result) ==
    [status |-> Str("completed"), step |-> Num(10),
     step_label |-> Str("Analysis complete!"), result |-> result]

\* mutant: the exception handler rewinds the progress counter
ExcUpdate_resetStep(e) ==
    [status |-> Str("error"), error |-> Str(e.msg), step |-> Num(0),
     traceback |-> Str(e.tb)]

\* the update of the handler `except Exception as e`
ExcUpdate(e) ==
    [status |-> Str("error"), error |-> Str(e.msg), traceback |-> Str(e.tb)]

----------------------------------------------------------------------------
(* Positions of the writer and its job-store calls *)

At(s, k) == [s |-> s, k |-> k]

NoCall == [phase |-> "idle", job_id |-> "", updates |-> None, data |-> None,
           fd |-> <<>>, pos |-> 0]

\* entry of _save_job(job_id, job_data)
SaveCall(job_id, job_data) ==
    [phase |-> "open", job_id |-> job_id, updates |-> None, data |-> job_data,
     fd |-> <<>>, pos |-> 0]

\* entry of _update_job(job_id, updates)
UpdateCall(job_id, updates) ==
    [phase |-> "load", job_id |-> job_id, updates |-> updates, data |-> None,
     fd |-> <<>>, pos |-> 0]

\* the job-store call made at position p with locals l
CallAt(p, l) ==
    CASE p.s = "create"   -> SaveCall(JobId, InitialRecord)
      [] p.s = "update"   -> UpdateCall(JobId, StepUpdate(p.k))
      [] p.s = "notfound" -> UpdateCall(JobId, NotFoundUpdate)
      [] p.s = "final"    -> UpdateCall(JobId, FinalUpdate(l.result))
      [] p.s = "except"   -> UpdateCall(JobId, ExcUpdate(l.exc))
      [] OTHER            -> NoCall

\* mutant: the fatal path of step 1 lacks its `return`
AfterCall_noReturn(p) ==
    CASE p.s = "create"   -> At("update", 1)
      [] p.s = "update"   -> At("work", p.k)
      [] p.s = "notfound" -> At("locals", 1)
      [] OTHER            -> At("done", 0)

\* where control continues when the job-store call made at p returns
AfterCall(p) ==
    CASE p.s = "create"   -> At("update", 1)
      [] p.s = "update"   -> At("work", p.k)
      [] p.s = "notfound" -> At("done", 0)
      [] p.s = "final"    -> At("done", 0)
      [] p.s = "except"   -> At("done", 0)
      [] OTHER            -> At("harness", 0)

Goto(p, l) == pc' = p /\ call' = CallAt(p, l)

\* `raise` inside the try block of run_full_analysis: control passes to the handler
Raise(msg, l) ==
    LET l2 == [l EXCEPT !.exc = [msg |-> msg, step |-> pc.k,
                                 tb |-> "Traceback (most recent call last)"]]
    IN  L' = l2 /\ Goto(At("except", pc.k), l2)

----------------------------------------------------------------------------
(* Inputs: requests, events of the market-listing provider, collector outcomes *)

\* prices and probabilities are fixed-point numbers in thousandths: 830 is 0.83
One == 1000

\* no function of the numeric core is being evaluated
NoCalc == [fn |-> "none"]

Slugs == {"", "some-event"}
Budgets == {Num(1000)}

Unset == [t |-> "unset"]

Market(q, strike, yes, clob) ==
    [question |-> q, strike |-> strike, yes_price |-> yes, no_price |-> One - yes,
     volume |-> 5000, slug |-> q, clobTokenIds |-> clob]

Event(title, markets) == [event_title |-> Str(title), event_end |-> "", markets |-> markets]

\* what fetch_polymarket_event returns when the event is found; markets sorted by strike
Events == {
    Event(<<"Largest", "company", "end", "June">>,
          << Market("Will Alphabet be the largest company?", 0, 830, "[\"11\", \"22\"]") >>),
    Event(<<"Will", "Tesla", "(TSLA)", "close", "above", "$250">>,
          << Market("Will TSLA split its stock?", 0, 300, "[]"),
             Market("Will TSLA close above $250?", 250, 500, "[]"),
             Market("Will TSLA close above $260?", 260, 300, "[]") >>),
    Event(<<"Lakers", "vs", "Celtics">>,
          << Market("Will the Lakers win?", 0, 0, "") >>),
    Event(<<"Fed", "decision">>,
          << Market("Will the Fed cut rates?", 0, 300, "null") >>) }

\* extract_ticker: the capital letters of the first "(XXXX)" of the title, or None
extract_ticker(title) ==
    LET tickers == [w \in {"(TSLA)", "(THE)"} |-> IF w = "(TSLA)" THEN "TSLA" ELSE "THE"]
        hits == {i \in 1..Len(title.s) : title.s[i] \in DOMAIN tickers}
    IN  IF hits = {} THEN None
        ELSE Str(tickers[title.s[CHOOSE i \in hits : \A k \in hits : i <= k]])

\* is_sports_event: some sports keyword occurs in the lower-cased title
is_sports_event(title) ==
    \E i \in 1..Len(title.s) : title.s[i] \in {"vs", "Lakers", "Celtics"}

\* fetch_stock_data: a quote, or None on any failure
StockOutcomes == {None, [ticker |-> "TSLA", spot_price |-> 260, implied_volatility |-> 30]}

\* values of round(norm.cdf(d2), 6) the model distinguishes
BSProbs == {0, 370}

\* outcome of the HTTP request of a collector
FetchOutcomes == {"ok", "non2xx", "exception"}

\* outcomes of the two requests (yes token, no token) of one order book
BookOutcomes == {<<"ok", "ok">>, <<"non2xx", "exception">>, <<"exception", "non2xx">>}

\* fetch_sports_odds
sports_odds_of(o) ==
    CASE o = "ok"     -> [sport |-> "basketball_nba", matching_games |-> <<>>]
      [] o = "non2xx" -> [error |-> "Failed to fetch sports", odds |-> <<>>]
      [] OTHER        -> [error |-> "timed out", odds |-> <<>>]

\* fetch_kalshi_markets
kalshi_of(o) ==
    LET results == [platform |-> "Kalshi", matching_markets_found |-> FALSE,
                    matching_markets |-> <<>>, conclusion |-> ""]
    IN  CASE o = "exception" -> [k \in DOMAIN results \cup {"error"} |->
                                    IF k = "error" THEN "timed out" ELSE results[k]]
          [] o = "non2xx" -> [results EXCEPT !.conclusion =
                          "No matching markets found on Kalshi. Polymarket is the only venue."]
          [] OTHER -> [results EXCEPT !.matching_markets_found = TRUE,
                          !.matching_markets = <<"KX-1">>,
                          !.conclusion = "Found 1 related markets on Kalshi."]

\* fetch_whale_activity
whale_of(o) ==
    LET result == [source |-> "Etherscan v2 (Polygon)", whale_count |-> 0,
                   whale_wallets |-> <<>>]
    IN  CASE o = "ok"     -> result
          [] o = "non2xx" -> [k \in DOMAIN result \cup {"error"} |->
                                 IF k = "error" THEN "Unknown error" ELSE result[k]]
          [] OTHER        -> [k \in DOMAIN result \cup {"error"} |->
                                 IF k = "error" THEN "timed out" ELSE result[k]]

\* generate_claude_report
report_of(o) ==
    CASE o = "ok" -> Str("Executive Summary ...")
      [] OTHER    -> Str("AI report generation failed: timed out")

----------------------------------------------------------------------------
(* Steps 3, 7 and 8 of run_full_analysis *)

Min(a, b) == IF a <= b THEN a ELSE b
Max(a, b) == IF a >= b THEN a ELSE b
Abs(a) == IF a >= 0 THEN a ELSE -a

\* round(n / d, ...) for d > 0: to the nearest integer, a half to the even one
RoundDiv(n, d) ==
    LET q == n \div d
        r == n - q * d
    IN  IF 2 * r < d THEN q
        ELSE IF 2 * r > d THEN q + 1
        ELSE IF q % 2 = 0 THEN q ELSE q + 1

\* mutant: the thresholds the comments call the earlier ones, 0.15 and 0.05
arb_verdict_old(edge, poly_price, true_prob) ==
    IF edge * 100 >= 15 * One THEN "ARBITRAGE"
    ELSE IF edge * 100 < 5 * One THEN "FAIR"
    ELSE IF poly_price < true_prob THEN "CHEAP"
    ELSE "EXPENSIVE"

\* the verdict of detect_arbitrage
arb_verdict(edge, poly_price, true_prob) ==
    IF edge * 100 >= 8 * One THEN "ARBITRAGE"
    ELSE IF edge * 100 < 2 * One THEN "FAIR"
    ELSE IF poly_price < true_prob THEN "CHEAP"
    ELSE "EXPENSIVE"

\* mutant: PASS up to the FAIR threshold
arb_recommendation_wide(edge, poly_price, true_prob) ==
    IF edge * 100 < 2 * One THEN "PASS"
    ELSE IF poly_price < true_prob THEN "BUY YES"
    ELSE "BUY NO"

\* the recommendation of detect_arbitrage
arb_recommendation(edge, poly_price, true_prob) ==
    IF edge * 100 < One THEN "PASS"
    ELSE IF poly_price < true_prob THEN "BUY YES"
    ELSE "BUY NO"

\* detect_arbitrage: edge_absolute in 1/10000, edge_percent in hundredths of a percent
detect_arbitrage(poly_price, true_prob) ==
    LET edge == Abs(poly_price - true_prob)
        verdict == arb_verdict(edge, poly_price, true_prob)
        color == CASE verdict = "ARBITRAGE" -> "purple"
                   [] verdict = "FAIR"      -> "yellow"
                   [] verdict = "CHEAP"     -> "green"
                   [] OTHER                 -> "red"
        rec == arb_recommendation(edge, poly_price, true_prob)
        direction == CASE rec = "PASS"    -> "fair"
                       [] rec = "BUY YES" -> "underpriced"
                       [] OTHER           -> "overpriced"
    IN  [verdict |-> verdict, color |-> color, recommendation |-> rec,
         edge_absolute |-> RoundDiv(edge * 10000, One),
         edge_percent |-> IF true_prob > 0 THEN RoundDiv(edge * 10000, true_prob) ELSE 0,
         polymarket_yes |-> poly_price, true_probability |-> true_prob,
         mispricing |-> direction]

\* mutant: the $5 floor is applied before the 35% cap
clamp_bet_capLast(bet, bankroll) == Min(Max(500, bet), 35 * bankroll)

\* bet = max(5.0, min(bet, bankroll * 0.35)), in cents
clamp_bet(bet, bankroll) == Max(500, Min(bet, 35 * bankroll))

\* the sizing without a Kelly signal with the second boost applied to the table value
\* in place of the first boost's result (elif in place of the second if)
prob_sizing_oneBoost(price, edge) ==
    LET base == IF price * 100 >= 80 * One THEN [pct |-> 20000, confidence |-> "high"]
                ELSE IF price * 100 >= 65 * One THEN [pct |-> 15000, confidence |-> "high"]
                ELSE IF price * 100 >= 50 * One THEN [pct |-> 12000, confidence |-> "medium"]
                ELSE IF price * 100 >= 30 * One THEN [pct |-> 8000, confidence |-> "medium"]
                ELSE IF price * 100 >= 10 * One THEN [pct |-> 5000, confidence |-> "low"]
                ELSE [pct |-> 2000, confidence |-> "low"]
    IN  IF edge * 100 >= 10 * One
        THEN [pct |-> Min((base.pct * 15) \div 10, 35000), confidence |-> "high"]
        ELSE IF edge * 100 >= 5 * One
        THEN [pct |-> Min((base.pct * 13) \div 10, 30000),
              confidence |-> IF base.confidence = "low" THEN "medium"
                             ELSE base.confidence]
        ELSE base

\* position_pct of the branch without a Kelly signal, in 1/100000 of the bankroll,
\* and its confidence: the table by price, then the two edge boosts
prob_sizing(price, edge) ==
    LET base == IF price * 100 >= 80 * One THEN [pct |-> 20000, confidence |-> "high"]
                ELSE IF price * 100 >= 65 * One THEN [pct |-> 15000, confidence |-> "high"]
                ELSE IF price * 100 >= 50 * One THEN [pct |-> 12000, confidence |-> "medium"]
                ELSE IF price * 100 >= 30 * One THEN [pct |-> 8000, confidence |-> "medium"]
                ELSE IF price * 100 >= 10 * One THEN [pct |-> 5000, confidence |-> "low"]
                ELSE [pct |-> 2000, confidence |-> "low"]
        b1 == IF edge * 100 >= 5 * One
              THEN [pct |-> Min((base.pct * 13) \div 10, 30000),
                    confidence |-> IF base.confidence = "low" THEN "medium"
                                   ELSE base.confidence]
              ELSE base
    IN  IF edge * 100 >= 10 * One
        THEN [pct |-> Min((b1.pct * 15) \div 10, 35000), confidence |-> "high"]
        ELSE b1

\* mutant: the guard of the degenerate inputs lets a price of 1 through
side_invalid_open(price, p) == price <= 0 \/ price > One \/ p <= 0

\* the guard of kelly_sizing: price <= 0 or price >= 1 or p <= 0
side_invalid(price, p) == price <= 0 \/ price >= One \/ p <= 0

\* the expected value without the loss term: p * (decimal_odds - 1)
ev_of_winOnly(price, p) == RoundDiv(p * (One - price) * 10, price)

\* ev = p * (decimal_odds - 1) - q, which is (p - price) / price; in 1/10000
ev_of(price, p) == RoundDiv((p - price) * 10000, price)

\* kelly_sizing, one side.  bankroll in dollars; bet_amount in cents; ev_per_dollar in
\* 1/10000; the percentages in hundredths of a percent.  full_kelly = (b*p - q)/b is
\* (p - price)/(1 - price)
kelly_side(bankroll, price, p, edge) ==
    IF side_invalid(price, p)
    THEN [kelly_pct |-> 0, bet_amount |-> 0, ev |-> 0, reason |-> "Invalid",
          position_pct |-> 0, confidence |-> "none"]
    ELSE LET num == p - price
             den == One - price
             capped == num * 100 >= 35 * den
             signal == num * 1000 > den
             sized == prob_sizing(price, edge)
             raw == IF signal
                    THEN IF capped THEN RoundDiv(bankroll * 2625, 100)
                         ELSE RoundDiv(bankroll * 300 * num, 4 * den)
                    ELSE RoundDiv(bankroll * sized.pct, 1000)
             bet == clamp_bet(raw, bankroll)
             position_pct == IF bankroll > 0 THEN RoundDiv(bet * 100, bankroll) ELSE 0
         IN  [price |-> price,
              decimal_odds |-> RoundDiv(100 * One, price),
              true_prob |-> p,
              full_kelly_pct |-> IF num <= 0 THEN 0
                                 ELSE IF capped THEN 3500
                                 ELSE RoundDiv(num * 10000, den),
              aggressive_kelly_pct |-> position_pct,
              bet_amount |-> bet,
              ev_per_dollar |-> ev_of(price, p),
              roi_if_win |-> RoundDiv(den * 10000, price),
              position_pct |-> position_pct,
              confidence |-> IF signal
                             THEN (IF capped \/ 15 * num >= 2 * den THEN "high" ELSE "medium")
                             ELSE sized.confidence]

kelly_sizing(bankroll, true_prob, poly_price) ==
    LET edge == Abs(poly_price - true_prob)
    IN  [YES |-> kelly_side(bankroll, poly_price, true_prob, edge),
         NO  |-> kelly_side(bankroll, One - poly_price, One - true_prob, edge)]

\* the model-based test without the market's own strike
model_based_anyStrike(m, l) == l.has_strikes /\ l.spot > 0

\* if has_strikes and strike > 0 and spot > 0
model_based(m, l) == l.has_strikes /\ m.strike > 0 /\ l.spot > 0

\* the market-implied probability taken as 0.5 whatever the price
market_implied_half(yes_price) == One \div 2

\* true_prob = yes_price if yes_price > 0 else 0.5
market_implied(yes_price) == IF yes_price > 0 THEN yes_price ELSE One \div 2

\* the per-market analysis of step 3; p_bs is black_scholes_prob's true_probability
analysis_of(m, l, p_bs) ==
    LET true_prob == IF model_based(m, l) THEN p_bs ELSE market_implied(m.yes_price)
    IN  [strike |-> m.strike, question |-> m.question,
         polymarket |-> [yes_price |-> m.yes_price, no_price |-> m.no_price,
                         volume |-> m.volume],
         black_scholes |-> [spot |-> l.spot, strike |-> m.strike, iv |-> l.iv,
                            days_to_expiry |-> l.days_left,
                            true_probability |-> true_prob,
                            model |-> IF model_based(m, l) THEN "Black-Scholes"
                                      ELSE "Market-Implied"],
         arbitrage |-> detect_arbitrage(m.yes_price, true_prob),
         kelly |-> kelly_sizing(l.budget.n, true_prob, m.yes_price)]

\* json.loads(clobTokenIds) of fetch_orderbook_depth
clob_loads(raw) ==
    CASE raw = ""                  -> [t |-> "JSONDecodeError"]
      [] raw = "[]"                -> [t |-> "list", l |-> <<>>]
      [] raw = "[\"11\", \"22\"]"  -> [t |-> "list", l |-> <<"11", "22">>]
      [] raw = "null"              -> None

\* the markets fetch_orderbook_depth requests books for
has_book(m) ==
    LET token_ids == clob_loads(m.clobTokenIds)
    IN  token_ids.t = "list" /\ Len(token_ids.l) >= 2

\* len(token_ids) of a value that has no length raises TypeError, outside every try
clob_raises(m) == clob_loads(m.clobTokenIds).t \notin {"JSONDecodeError", "list"}

\* one side of a book: the depth on 200, no key on another status, an error tag
\* when the request raised
book_of(m, oy, on) ==
    LET keys == {"question", "strike"}
                    \cup (IF oy = "non2xx" THEN {} ELSE {"yes"})
                    \cup (IF on = "non2xx" THEN {} ELSE {"no"})
        side(o) == IF o = "ok" THEN [best_bid |-> 0, best_ask |-> 0, num_bids |-> 0]
                   ELSE [error |-> "Failed to fetch"]
    IN  [k \in keys |->
            CASE k = "question" -> [v |-> m.question]
              [] k = "strike"   -> [v |-> m.strike]
              [] k = "yes"      -> side(oy)
              [] k = "no"       -> side(on)]

\* fetch_orderbook_depth when no market raises: market_key -> book
fetch_orderbook_depth(markets, oy, on) ==
    LET idx == {i \in 1..Len(markets) : has_book(markets[i])}
    IN  [key \in {markets[i].slug : i \in idx} |->
            book_of(markets[CHOOSE i \in idx : markets[i].slug = key], oy, on)]

EmptyDict == [k \in {} |-> None]

\* k.get(key, default) of a sizing result
kget(k, key, default) == IF key \in DOMAIN k THEN k[key] ELSE default

\* total_score of one (market, side) pair, in thousandths of a point; the quotients
\* are truncated at that resolution
total_score(k, vol, budget) ==
    LET ev == kget(k, "ev_per_dollar", 0)
        roi == kget(k, "roi_if_win", 0)
        price == kget(k, "price", One \div 2)
        bet == kget(k, "bet_amount", 0)
        prob_score == price * 40
        return_score == IF roi > 0
                        THEN Min((bet * ((roi * price) \div One)) \div 10000, 20000)
                        ELSE 0
        ev_score == Max(ev * 5, 0)
        vol_score == IF vol # 0 THEN Min(vol \div 3, 8000) ELSE 0
        pos_score == IF budget > 0 THEN Min((bet * 200) \div budget, 5000) ELSE 0
        roi_score == IF 500 <= roi /\ roi <= 10000 THEN 10000
                     ELSE IF 10000 < roi /\ roi <= 30000 THEN 5000
                     ELSE IF roi > 30000 THEN 1000
                     ELSE 3000
    IN  prob_score + return_score + ev_score + vol_score + pos_score + roi_score

\* the pairs in iteration order: pair j is market (j + 1) \div 2, YES before NO
pair_market(j) == (j + 1) \div 2
pair_side(j) == IF j % 2 = 1 THEN "YES" ELSE "NO"
pair_score(all_analysis, budget, j) ==
    LET m == all_analysis[pair_market(j)]
    IN  total_score(m.kelly[pair_side(j)], m.polymarket.volume, budget)

\* mutant: a later pair with an equal score replaces the best one
beats_orEqual(total, best_score) == total >= best_score

\* if total_score > best_score
beats(total, best_score) == total > best_score

\* one pass of the loop body for pair j: the best pair so far after it
select_step(all_analysis, budget, j, best) ==
    LET k == all_analysis[pair_market(j)].kelly[pair_side(j)]
    IN  CHOOSE b \in {IF beats(total, best.score)
                      THEN [score |-> total, market |-> pair_market(j),
                            side |-> pair_side(j), ev |-> kget(k, "ev_per_dollar", 0)]
                      ELSE best : total \in {pair_score(all_analysis, budget, j)}} : TRUE

\* the loop over all_analysis and the two sides, from pair j on; each pass is bound as
\* a value (a one-element set) before the next pass reads it
RECURSIVE select_best(_, _, _, _)
select_best(all_analysis, budget, j, best) ==
    IF j > 2 * Len(all_analysis) THEN best
    ELSE CHOOSE r \in {select_best(all_analysis, budget, j + 1, b) :
                          b \in {select_step(all_analysis, budget, j, best)}} : TRUE

\* the strategy dict for the winner the loop left in best; market 0 is best_market =
\* None.  Money in cents
strategy_from(all_analysis, budget, best) ==
    LET found == best.market # 0
        k == IF found THEN all_analysis[best.market].kelly[best.side] ELSE EmptyDict
        position == IF kget(k, "bet_amount", 0) <= 0 THEN RoundDiv(budget * 500, 100)
                    ELSE kget(k, "bet_amount", 0)
        price == kget(k, "price", One \div 2)
    IN  [best_market |-> IF found THEN Str(all_analysis[best.market].question) ELSE None,
         best_side |-> IF found THEN Str(best.side) ELSE None,
         best_ev |-> best.ev,
         is_multi_choice |-> Len(all_analysis) > 1,
         num_markets |-> Len(all_analysis),
         recommended_position |-> IF found THEN position ELSE 0,
         position_pct |-> IF found THEN kget(k, "position_pct", 0) ELSE 0,
         confidence |-> IF found THEN kget(k, "confidence", "low") ELSE "none",
         max_loss |-> IF found THEN position ELSE 0,
         potential_profit |-> IF found /\ price > 0
                              THEN RoundDiv(position * (One - price), price) ELSE 0]

\* step 8: the selector loop, then the strategy of its winner
strategy_of(all_analysis, budget) ==
    CHOOSE s \in {strategy_from(all_analysis, budget, best) :
                     best \in {select_best(all_analysis, budget, 1,
                                  [score |-> -999000, market |-> 0, side |-> "YES",
                                   ev |-> 0])}} : TRUE

\* a result that keeps the analysis of the first market only
result_of_firstOnly(l) ==
    Dict([event |-> l.event, stock_data |-> l.stock, days_to_expiry |-> l.days_left,
          strike_analysis |-> SubSeq(l.all_analysis, 1, 1), sports_odds |-> l.sports_odds,
          kalshi_comparison |-> l.kalshi_data, whale_tracking |-> l.whale_data,
          orderbook_depth |-> l.orderbook_data, strategy |-> l.strategy,
          claude_report |-> l.claude_report, budget |-> l.budget,
          ticker |-> l.ticker, is_sports |-> l.is_sports])

\* the result assembled in step 10
result_of(l) ==
    Dict([event |-> l.event, stock_data |-> l.stock, days_to_expiry |-> l.days_left,
          strike_analysis |-> l.all_analysis, sports_odds |-> l.sports_odds,
          kalshi_comparison |-> l.kalshi_data, whale_tracking |-> l.whale_data,
          orderbook_depth |-> l.orderbook_data, strategy |-> l.strategy,
          claude_report |-> l.claude_report, budget |-> l.budget,
          ticker |-> l.ticker, is_sports |-> l.is_sports])

----------------------------------------------------------------------------
(* The polling endpoints *)

\* mutant: the result endpoint does not look at the status
api_analyze_result_noCheck(job) ==
    IF ~Truthy(job)
    THEN [code |-> 404, body |-> [error |-> "Job not found"]]
    ELSE [code |-> 200, body |-> job["result"]]

\* GET /api/analyze/result/<job_id>, given what _load_job returned
api_analyze_result(job) ==
    IF ~Truthy(job)
    THEN [code |-> 404, body |-> [error |-> "Job not found"]]
    ELSE IF job["status"] # Str("completed")
         THEN [code |-> 400, body |-> [error |-> <<"Job not ready: ", job["status"].s>>,
                                       status |-> job["status"]]]
         ELSE [code |-> 200, body |-> job["result"]]

\* GET /api/analyze/status/<job_id>, given what _load_job returned
api_analyze_status(job) ==
    IF ~Truthy(job)
    THEN [code |-> 404, body |-> [error |-> "Job not found"]]
    ELSE [code |-> 200,
          body |-> [status |-> job["status"], step |-> job["step"],
                    total_steps |-> IF "total_steps" \in DOMAIN job
                                    THEN job["total_steps"] ELSE Num(total_steps),
                    step_label |-> job["step_label"],
                    error |-> IF "error" \in DOMAIN job THEN job["error"] ELSE None]]

\* the poller's file object: "none" after FileNotFoundError, "path" while the file it
\* opened is still the one linked at the job's path, "unlinked" once os.replace has put
\* another file there (the opened one keeps its text, kept in rd.text)
IdleReader(seen) == [phase |-> "idle", job_id |-> "", fd |-> "none", text |-> <<>>,
                     old |-> None, seen |-> seen]

\* what the _load_job of the poll in flight returns: None after FileNotFoundError,
\* else json.load of the file object it opened
Loaded ==
    CASE rd.fd = "none" -> None
      [] rd.fd = "path" -> json_load(files[_job_path(rd.job_id)].text)
      [] OTHER          -> json_load(rd.text)

\* the HTTP responses of the two endpoints to the poll in flight
StatusAnswer == api_analyze_status(Loaded)
ResultAnswer == api_analyze_result(Loaded)

\* a poll of either endpoint begins: _load_job opens the job file, or gets
\* FileNotFoundError
PollOpen ==
    /\ rd.phase = "idle"
    /\ \E id \in {JobId, UnknownId} :
          rd' = [phase |-> "opened", job_id |-> id,
                 fd |-> IF files[_job_path(id)].exists THEN "path" ELSE "none",
                 text |-> <<>>, old |-> committed[id], seen |-> rd.seen]
    /\ UNCHANGED <<files, pc, call, L, committed>>
    /\ UNCHANGED calc

\* json.load of the opened file and the endpoint's answer; the client keeps the
\* step a status answer showed
PollRead ==
    /\ rd.phase = "opened"
    /\ \E op \in {"status", "result"} :
          rd' = IdleReader(IF op = "status" /\ StatusAnswer.code = 200
                           THEN StatusAnswer.body.step.n ELSE rd.seen)
    /\ UNCHANGED <<files, pc, call, L, committed>>
    /\ UNCHANGED calc

----------------------------------------------------------------------------
(* The job-store calls of the writer, statement by statement *)

\* _update_job: job = _load_job(job_id); if job: job.update(updates); _save_job(...);
\* return job.  L.ret is the value the last job-store call returned to its caller
UpdateLoad ==
    /\ call.phase = "load"
    /\ LET job == _load_job(call.job_id)
       IN  IF Truthy(job)
           THEN /\ call' = [call EXCEPT !.phase = "open",
                                        !.data = dict_update(job, call.updates)]
                /\ UNCHANGED <<pc, L>>
           ELSE LET l2 == [L EXCEPT !.ret = job]
                IN  L' = l2 /\ Goto(AfterCall(pc), l2)
    /\ UNCHANGED <<files, rd, committed>>
    /\ UNCHANGED calc

\* _save_job: open(tmp_path, "w") creates the file or truncates it
SaveOpen ==
    /\ call.phase = "open"
    /\ LET tmp == tmp_path(_job_path(call.job_id))
       IN  /\ files' = [files EXCEPT ![tmp] = File(<<>>)]
           /\ call' = [call EXCEPT !.phase = "write", !.fd = tmp, !.pos = 0]
    /\ UNCHANGED <<pc, L, rd, committed>>
    /\ UNCHANGED calc

\* _save_job: json.dump reaches the file one write() at a time; the last one closes it
SaveWrite ==
    /\ call.phase = "write"
    /\ LET text == json_dump(call.data)
           upto == Min(call.pos + ChunkTokens, Len(text))
       IN  /\ files' = [files EXCEPT ![call.fd].text = @ \o SubSeq(text, call.pos + 1, upto)]
           /\ call' = [call EXCEPT !.pos = upto,
                                   !.phase = IF upto = Len(text) THEN "replace" ELSE "write"]
    /\ UNCHANGED <<pc, L, rd, committed>>
    /\ UNCHANGED calc

\* _save_job: os.replace(tmp_path, path), and the call returns; a file object a
\* poller opened on the replaced file keeps that file
SaveReplace ==
    /\ call.phase = "replace"
    /\ LET path == _job_path(call.job_id)
           tmp == tmp_path(path)
       IN  IF tmp = path
           THEN UNCHANGED <<files, rd>>
           ELSE /\ files' = [files EXCEPT ![path] = files[tmp], ![tmp] = Absent]
                /\ rd' = IF rd.phase = "opened" /\ rd.fd = "path" /\ rd.job_id = call.job_id
                         THEN [rd EXCEPT !.fd = "unlinked", !.text = files[path].text]
                         ELSE rd
    /\ committed' = [committed EXCEPT ![call.job_id] = call.data]
    /\ LET l2 == [L EXCEPT !.ret = IF call.updates = None THEN None ELSE call.data]
       IN  L' = l2 /\ Goto(AfterCall(pc), l2)
    /\ UNCHANGED calc

----------------------------------------------------------------------------
(* api_analyze and the ten steps of run_full_analysis *)

InitLocals ==
    [slug |-> Unset, budget |-> Unset, event |-> Unset, has_strikes |-> FALSE,
     ticker |-> Unset, is_sports |-> FALSE, stock |-> Unset, spot |-> 0, iv |-> 30,
     days_left |-> 7, all_analysis |-> <<>>, sports_odds |-> Unset,
     kalshi_data |-> Unset, whale_data |-> Unset, orderbook_data |-> Unset,
     strategy |-> Unset, claude_report |-> Unset, result |-> Unset, exc |-> Unset,
     ret |-> Unset]

\* POST /api/analyze: 400 without a slug; else create the record and start the thread
api_analyze ==
    /\ pc = At("new", 0)
    /\ \E slug \in Slugs, budget \in Budgets :
          IF slug = ""
          THEN pc' = At("rejected", 0) /\ UNCHANGED <<call, L>>
          ELSE LET l2 == [L EXCEPT !.slug = Str(slug), !.budget = budget]
               IN  L' = l2 /\ Goto(At("create", 0), l2)
    /\ UNCHANGED <<files, rd, committed>>
    /\ UNCHANGED calc

\* step 1: event = fetch_polymarket_event(slug); if not event: error update, return
Step1Fetch ==
    /\ pc = At("work", 1)
    /\ \E event \in Events \cup {None} :
          LET l2 == [L EXCEPT !.event = event]
          IN  /\ L' = l2
              /\ IF event = None THEN Goto(At("notfound", 1), l2)
                                 ELSE Goto(At("locals", 1), l2)
    /\ UNCHANGED <<files, rd, committed>>
    /\ UNCHANGED calc

\* lines 890-893: markets, has_strikes, ticker, is_sports
Step1Locals ==
    /\ pc = At("locals", 1)
    /\ IF L.event = None
       THEN Raise("'NoneType' object is not subscriptable", L)
       ELSE LET markets == L.event.markets
                l2 == [L EXCEPT
                         !.has_strikes = \E i \in 1..Len(markets) : markets[i].strike > 0,
                         !.ticker = extract_ticker(L.event.event_title),
                         !.is_sports = is_sports_event(L.event.event_title)]
            IN  L' = l2 /\ Goto(At("update", 2), l2)
    /\ UNCHANGED <<files, rd, committed>>
    /\ UNCHANGED calc

\* step 2: the equity quote, only with a ticker and a strike; then days_left
Step2Stock ==
    /\ pc = At("work", 2)
    /\ \E stock \in StockOutcomes :
          /\ (L.ticker = None \/ ~L.has_strikes) => stock = None
          /\ LET l2 == [L EXCEPT
                          !.stock = stock,
                          !.spot = IF stock # None THEN stock.spot_price ELSE 0,
                          !.iv = IF stock # None THEN stock.implied_volatility ELSE 30,
                          !.days_left = 7]
             IN  L' = l2 /\ Goto(At("update", 3), l2)
    /\ UNCHANGED <<files, rd, committed>>
    /\ UNCHANGED calc

\* step 3: probability, arbitrage, Kelly sizing and ROI of every market
Step3Models ==
    /\ pc = At("work", 3)
    /\ LET markets == L.event.markets
           some_model_based == \E i \in 1..Len(markets) : model_based(markets[i], L)
       IN  \E p_bs \in (IF some_model_based THEN BSProbs ELSE {One \div 2}) :
              LET all_analysis == [i \in 1..Len(markets) |-> analysis_of(markets[i], L, p_bs)]
                  l2 == [L EXCEPT !.all_analysis = all_analysis]
              IN  L' = l2 /\ Goto(At("update", 4), l2)
    /\ UNCHANGED <<files, rd, committed>>
    /\ UNCHANGED calc

\* step 4: sports odds, only for a sports title
Step4Sports ==
    /\ pc = At("work", 4)
    /\ \E o \in {"ok", "exception"} :
          /\ ~L.is_sports => o = "ok"
          /\ LET l2 == [L EXCEPT !.sports_odds = IF L.is_sports THEN sports_odds_of(o)
                                                 ELSE EmptyDict]
             IN  L' = l2 /\ Goto(At("update", 5), l2)
    /\ UNCHANGED <<files, rd, committed>>
    /\ UNCHANGED calc

\* step 5: secondary-venue search
Step5Kalshi ==
    /\ pc = At("work", 5)
    /\ \E o \in FetchOutcomes :
          LET l2 == [L EXCEPT !.kalshi_data = kalshi_of(o)]
          IN  L' = l2 /\ Goto(At("update", 6), l2)
    /\ UNCHANGED <<files, rd, committed>>
    /\ UNCHANGED calc

\* step 6: transfer scan
Step6Whale ==
    /\ pc = At("work", 6)
    /\ \E o \in {"ok", "exception"} :
          LET l2 == [L EXCEPT !.whale_data = whale_of(o)]
          IN  L' = l2 /\ Goto(At("update", 7), l2)
    /\ UNCHANGED <<files, rd, committed>>
    /\ UNCHANGED calc

\* step 7: order books
Step7Orderbook ==
    /\ pc = At("work", 7)
    /\ LET markets == L.event.markets
           any_book == \E i \in 1..Len(markets) : has_book(markets[i])
       IN  \E o \in BookOutcomes :
              /\ ~any_book => o = <<"ok", "ok">>
              /\ IF \E i \in 1..Len(markets) : clob_raises(markets[i])
                 THEN Raise("object of type 'NoneType' has no len()", L)
                 ELSE LET l2 == [L EXCEPT !.orderbook_data =
                                            fetch_orderbook_depth(markets, o[1], o[2])]
                      IN  L' = l2 /\ Goto(At("update", 8), l2)
    /\ UNCHANGED <<files, rd, committed>>
    /\ UNCHANGED calc

\* step 8: strategy selection
Step8Strategy ==
    /\ pc = At("work", 8)
    /\ LET l2 == [L EXCEPT !.strategy = strategy_of(L.all_analysis, L.budget.n)]
       IN  L' = l2 /\ Goto(At("update", 9), l2)
    /\ UNCHANGED <<files, rd, committed>>
    /\ UNCHANGED calc

\* step 9: the report generator
Step9Report ==
    /\ pc = At("work", 9)
    /\ \E o \in {"ok", "exception"} :
          LET l2 == [L EXCEPT !.claude_report = report_of(o)]
          IN  L' = l2 /\ Goto(At("update", 10), l2)
    /\ UNCHANGED <<files, rd, committed>>
    /\ UNCHANGED calc

\* step 10: assemble the result; the final update follows
Step10Assemble ==
    /\ pc = At("work", 10)
    /\ LET l2 == [L EXCEPT !.result = result_of(L)]
       IN  L' = l2 /\ Goto(At("final", 10), l2)
    /\ UNCHANGED <<files, rd, committed>>
    /\ UNCHANGED calc

----------------------------------------------------------------------------
(* The system *)

Init ==
    /\ files = [p \in Paths |-> Absent]
    /\ pc = At("new", 0)
    /\ call = NoCall
    /\ L = InitLocals
    /\ rd = IdleReader(0)
    /\ committed = [id \in {JobId, UnknownId} |-> None]
    /\ calc = NoCalc

Writer ==
    \/ api_analyze
    \/ UpdateLoad
    \/ SaveOpen
    \/ SaveWrite
    \/ SaveReplace
    \/ Step1Fetch
    \/ Step1Locals
    \/ Step2Stock
    \/ Step3Models
    \/ Step4Sports
    \/ Step5Kalshi
    \/ Step6Whale
    \/ Step7Orderbook
    \/ Step8Strategy
    \/ Step9Report
    \/ Step10Assemble

Reader == PollOpen \/ PollRead

Next == Writer \/ Reader

Spec == Init /\ [][Next]_vars

\* the pipeline thread and the request thread are scheduled until they return
FairSpec == Spec /\ WF_vars(Writer)

\* the job store on its own: a caller that makes one _update_job call after another,
\* on the id of a stored record or on an id the store never saw
HarnessUpdates ==
    {StepUpdate(2), StepUpdate(3), [step |-> Num(4)], NotFoundUpdate,
     FinalUpdate(Dict([budget |-> Num(1000)])),
     ExcUpdate([msg |-> "timed out", tb |-> "Traceback (most recent call last)"])}

HarnessUpdate ==
    /\ pc = At("harness", 0)
    /\ call.phase = "idle"
    /\ \E job_id \in {JobId, UnknownId}, updates \in HarnessUpdates :
          call' = UpdateCall(job_id, updates)
    /\ UNCHANGED <<files, pc, L, rd, committed>>
    /\ UNCHANGED calc

StoreInit ==
    /\ files = [p \in Paths |-> IF p = _job_path(JobId) THEN File(json_dump(InitialRecord))
                                ELSE Absent]
    /\ pc = At("harness", 0)
    /\ call = NoCall
    /\ L = InitLocals
    /\ rd = IdleReader(0)
    /\ committed = [id \in {JobId, UnknownId} |-> IF id = JobId THEN InitialRecord ELSE None]
    /\ calc = NoCalc

StoreNext ==
    \/ HarnessUpdate
    \/ UpdateLoad
    \/ SaveOpen
    \/ SaveWrite
    \/ SaveReplace

StoreSpec == StoreInit /\ [][StoreNext]_vars

----------------------------------------------------------------------------
(* The numeric core on its own: one call of one function on chosen arguments *)

Bankrolls == {0, 1, 10, 14, 15, 100, 1000}
PolyPrices == {-100, 0, 1, 50, 99, 100, 170, 300, 490, 500, 510, 650, 800, 830, 950, 999, 1000, 1100}
TrueProbs == {0, 10, 170, 300, 489, 495, 500, 511, 520, 830, 990, 1000}

\* kelly_sizing(bankroll, true_prob, poly_price)
Calc_kelly_sizing ==
    /\ calc = NoCalc
    /\ \E bankroll \in Bankrolls, true_prob \in TrueProbs, poly_price \in PolyPrices :
          calc' = [fn |-> "kelly_sizing", bankroll |-> bankroll, true_prob |-> true_prob,
                   poly_price |-> poly_price,
                   res |-> kelly_sizing(bankroll, true_prob, poly_price)]
    /\ UNCHANGED <<files, pc, call, L, rd, committed>>

\* detect_arbitrage(poly_price, true_prob)
Calc_detect_arbitrage ==
    /\ calc = NoCalc
    /\ \E poly_price \in PolyPrices, true_prob \in TrueProbs :
          calc' = [fn |-> "detect_arbitrage", poly_price |-> poly_price,
                   true_prob |-> true_prob,
                   res |-> detect_arbitrage(poly_price, true_prob)]
    /\ UNCHANGED <<files, pc, call, L, rd, committed>>

\* markets of an event as steps 1..3 see them: strike, yes_price, volume, and the
\* probability black_scholes_prob returns for the market when it is model-based
SelMarkets ==
    {[strike |-> 0,   yes |-> 830,  vol |-> 5000,  p_bs |-> 0],
     [strike |-> 0,   yes |-> 0,    vol |-> 24000, p_bs |-> 0],
     [strike |-> 0,   yes |-> 500,  vol |-> 5000,  p_bs |-> 0],
     [strike |-> 0,   yes |-> 170,  vol |-> 0,     p_bs |-> 0],
     [strike |-> 0,   yes |-> 1000, vol |-> 0,     p_bs |-> 0],
     [strike |-> 250, yes |-> 510,  vol |-> 0,     p_bs |-> 511],
     [strike |-> 300, yes |-> 950,  vol |-> 0,     p_bs |-> 0]}

\* the market lists fetch_polymarket_event can return: sorted by strike
SelLists ==
    {<<>>} \cup {<<a>> : a \in SelMarkets}
           \cup {ms \in SelMarkets \X SelMarkets : ms[1].strike <= ms[2].strike}

\* all_analysis of step 3 for such a list, with an equity quote whenever a market has
\* a strike
sel_analysis(ms, budget) ==
    LET l == [has_strikes |-> \E i \in 1..Len(ms) : ms[i].strike > 0,
              spot |-> 260, iv |-> 30, days_left |-> 7, budget |-> Num(budget)]
        q(i) == IF i = 1 THEN "Will the first close above?" ELSE "Will the second close above?"
    IN  [i \in 1..Len(ms) |->
            analysis_of([Market(q(i), ms[i].strike, ms[i].yes, "[]")
                            EXCEPT !.volume = ms[i].vol], l, ms[i].p_bs)]

\* step 8 of run_full_analysis on the analysis of a market list
Calc_strategy ==
    /\ calc = NoCalc
    /\ \E ms \in SelLists, budget \in {0, 100, 1000} :
          LET all_analysis == sel_analysis(ms, budget)
          IN  calc' = [fn |-> "strategy", all_analysis |-> all_analysis, budget |-> budget,
                       res |-> strategy_of(all_analysis, budget)]
    /\ UNCHANGED <<files, pc, call, L, rd, committed>>

\* the ROI term with potential_roi divided by 100 in place of 300
roi_score_per100(cheap_side) ==
    LET floor_side == Max(cheap_side, 50)
    IN  IF One - floor_side >= floor_side THEN 35000
        ELSE RoundDiv((One - floor_side) * 35000, floor_side)

\* the ROI-potential term: min(potential_roi / 300, 1) x 35, where
\* potential_roi / 300 = (1 - floor_side) / (3 x floor_side)
roi_score(cheap_side) ==
    LET floor_side == Max(cheap_side, 50)
    IN  IF One - floor_side >= 3 * floor_side THEN 35000
        ELSE RoundDiv((One - floor_side) * 35000, 3 * floor_side)

\* compute_polysnap_score: prices, spread and price change in thousandths, volumes and
\* liquidity in dollars; the parts are in thousandths of a point, the score in tenths
compute_polysnap_score(yes_price, volume, volume_24h, liquidity, spread, price_change) ==
    LET cheap_side == Min(yes_price, One - yes_price)
        uncertainty_score ==
            IF cheap_side <= 100 THEN cheap_side * 100
            ELSE IF cheap_side <= 250 THEN 15000 + (cheap_side - 100) * 100
            ELSE IF cheap_side <= 400 THEN 25000 + (400 - cheap_side) * 33
            ELSE 20000
        volatility_score == Min(price_change * 100, 15000)
        liq_score == IF liquidity < 1000 THEN liquidity * 5
                     ELSE IF liquidity < 10000
                          THEN 5000 + RoundDiv((liquidity - 1000) * 5000, 9000)
                     ELSE 10000
        activity_score == IF volume_24h * 10 >= Max(volume, 1) THEN 10000
                          ELSE RoundDiv(volume_24h * 100000, Max(volume, 1))
        spread_penalty == Min(spread * 100, 10000)
        sure_thing_penalty == IF cheap_side < 80 THEN 20000
                              ELSE IF cheap_side < 120 THEN 10000 ELSE 0
        total == uncertainty_score + roi_score(cheap_side) + volatility_score + liq_score
                 + activity_score - spread_penalty - sure_thing_penalty
    IN  RoundDiv(Max(total, 0), 100)

\* the verdict get_trending_markets gives a market
trending_verdict(yes_price, volume_24h, price_change) ==
    LET cheap_side == Min(yes_price, One - yes_price)
        floor_side == Max(cheap_side, 50)
        is_uncertain == 120 <= cheap_side /\ cheap_side <= 420
        \* potential_roi >= 150, with potential_roi = (1 / floor_side - 1) x 100
        is_high_roi == (One - floor_side) * 100 >= 150 * floor_side
        is_volatile == price_change >= 20
        is_not_dead == volume_24h >= 100
    IN  IF is_uncertain /\ is_high_roi /\ is_not_dead THEN "HOT"
        ELSE IF is_uncertain /\ (is_high_roi \/ is_volatile) THEN "WARM"
        ELSE IF cheap_side < 100 THEN "OBVIOUS"
        ELSE "COOL"

\* market fields of the trending feed
TrendPrices == {50, 90, 110, 200, 300, 410, 500, 950}
TrendVolumes == {0, 5000}
TrendVolumes24h == {0, 100, 400}
TrendLiquidity == {0, 500, 5000, 20000}
TrendSpreads == {0, 20, 200}
TrendChanges == {0, 20, 300}

\* one market of get_trending_markets: its score and its verdict
Calc_trending ==
    /\ calc = NoCalc
    /\ \E yes \in TrendPrices, vol \in TrendVolumes, v24 \in TrendVolumes24h,
          liq \in TrendLiquidity, spread \in TrendSpreads, change \in TrendChanges :
          calc' = [fn |-> "trending", yes_price |-> yes, volume |-> vol,
                   volume_24h |-> v24, liquidity |-> liq, spread |-> spread,
                   price_change |-> change,
                   score |-> compute_polysnap_score(yes, vol, v24, liq, spread, change),
                   verdict |-> trending_verdict(yes, v24, change)]
    /\ UNCHANGED <<files, pc, call, L, rd, committed>>

\* re.findall(r'[A-Za-z]{3,}', token): the runs of three or more letters of one token
letter_runs(token) ==
    CASE token = "(TSLA)" -> <<"TSLA">>
      [] token = "(THE)"  -> <<"THE">>
      [] token \in {"$250", "vs", "on", "$260", "by"} -> <<>>
      [] OTHER -> <<token>>

\* the letter runs of a title, token after token
RECURSIVE title_words(_)
title_words(tokens) ==
    IF tokens = <<>> THEN <<>>
    ELSE letter_runs(Head(tokens)) \o title_words(Tail(tokens))

\* str.lower on the words the titles are made of
lower(w) ==
    CASE w = "Will" -> "will"     [] w = "The" -> "the"        [] w = "THE" -> "the"
      [] w = "Tesla" -> "tesla"   [] w = "TSLA" -> "tsla"      [] w = "Friday" -> "friday"
      [] w = "June" -> "june"     [] w = "Lakers" -> "lakers"  [] w = "Celtics" -> "celtics"
      [] w = "Largest" -> "largest" [] w = "Fed" -> "fed"      [] w = "Above" -> "above"
      [] w = "Hershey" -> "hershey" [] w = "Company" -> "company"
      [] OTHER -> w

skip_words == {"will", "the", "and", "for", "that", "this", "are", "was", "above", "below",
               "close"}

\* the search keywords of step 5
search_kws(title, ticker) ==
    LET kept == SelectSeq(title_words(title.s), LAMBDA w : lower(w) \notin skip_words)
        capped == SubSeq(kept, 1, Min(5, Len(kept)))
    IN  IF ticker # None THEN <<ticker.s>> \o capped ELSE capped

\* event titles, as token lists
Titles == {e.event_title : e \in Events} \cup {
    Str(<<"Will", "Tesla", "(TSLA)", "close", "above", "$250", "on", "Friday", "June",
          "third">>),
    Str(<<"Will", "The", "Hershey", "Company", "(THE)", "win">>),
    Str(<<"Will", "the", "Fed", "cut", "rates", "by", "June">>),
    Str(<<"Fed", "cut", "rates", "hike", "pause", "June", "Friday">>),
    Str(<<"vs">>) }

\* the keyword list of step 5 for one title
Calc_search_kws ==
    /\ calc = NoCalc
    /\ \E title \in Titles :
          calc' = [fn |-> "search_kws", title |-> title,
                   ticker |-> extract_ticker(title),
                   res |-> search_kws(title, extract_ticker(title))]
    /\ UNCHANGED <<files, pc, call, L, rd, committed>>

\* ---- black_scholes_prob: prices in dollars, iv in thousandths, logarithms, drift and
\* ---- T in millionths, d1 and d2 in thousandths, probabilities in millionths
Million == 1000000

\* risk_free = 0.045, in millionths
risk_free == 45000

\* np.log at the prices of the harness, in millionths
np_log_table == [n \in {200, 250, 300} |->
    CASE n = 200 -> 5298317 [] n = 250 -> 5521461 [] n = 300 -> 5703782]

\* np.log(spot / strike)
np_log_ratio(spot, strike) == np_log_table[spot] - np_log_table[strike]

\* np.sqrt of n millionths, in thousandths, to the nearest
np_sqrt(n) == CHOOSE x \in 0..1500 : (2 * x - 1) * (2 * x - 1) <= 4 * n /\ 4 * n < (2 * x + 1) * (2 * x + 1)

\* a * b for a and b in millionths, in millionths
MulMillionths(a, b) ==
    RoundDiv((a \div 1000) * b, 1000) + RoundDiv((a % 1000) * b, Million)

\* norm.cdf at 0.0, 0.1, ..., 5.0, in millionths
norm_cdf_table == <<
       500000, 539828, 579260, 617911, 655422, 691462,
       725747, 758036, 788145, 815940, 841345, 864334,
       884930, 903200, 919243, 933193, 945201, 955435,
       964070, 971283, 977250, 982136, 986097, 989276,
       991802, 993790, 995339, 996533, 997445, 998134,
       998650, 999032, 999313, 999517, 999663, 999767,
       999841, 999892, 999928, 999952, 999968, 999979,
       999987, 999991, 999995, 999997, 999998, 999999,
       999999, 1000000, 1000000 >>

\* norm.cdf(d) for d in thousandths: linear between the tabulated points, 1 from 5.0 on
\* (where it rounds to 1.000000), and norm.cdf(-d) = 1 - norm.cdf(d)
norm_cdf_nonneg(d) ==
    IF d >= 5000 THEN Million
    ELSE LET i  == d \div 100
             lo == norm_cdf_table[i + 1]
             hi == norm_cdf_table[i + 2]
         IN  lo + RoundDiv((hi - lo) * (d % 100), 100)

norm_cdf(d) == IF d >= 0 THEN norm_cdf_nonneg(d) ELSE Million - norm_cdf_nonneg(-d)

\* T = max(days_to_expiry / 365.0, 0.001)
T_years(days_to_expiry) ==
    LET t == RoundDiv(days_to_expiry * Million, 365)
    IN  IF t > 1000 THEN t ELSE 1000

\* mutant: the drift without the risk-free rate
bs_drift_noRate(iv, sign) == sign * ((iv * iv) \div 2)

\* risk_free + 0.5 * iv ** 2 (sign 1), risk_free - 0.5 * iv ** 2 (sign -1)
bs_drift(iv, sign) == risk_free + sign * ((iv * iv) \div 2)

\* (np.log(spot / strike) + drift * T) / (iv * np.sqrt(T)), in thousandths
bs_d(spot, strike, iv, days_to_expiry, sign) ==
    LET T == T_years(days_to_expiry)
    IN  RoundDiv((np_log_ratio(spot, strike) + MulMillionths(bs_drift(iv, sign), T)) * 1000,
                 iv * np_sqrt(T))

\* d1 of black_scholes_prob
bs_d1(spot, strike, iv, days_to_expiry) == bs_d(spot, strike, iv, days_to_expiry, 1)

\* d2 = d1 - iv * np.sqrt(T): as iv * np.sqrt(T) is 0.5 * iv ** 2 * T / (iv * np.sqrt(T))
\* twice over, d2 is d1 with the sign of the iv ** 2 term turned; it is rounded once here,
\* so that the rounding of np.sqrt does not enter the difference
bs_d2(spot, strike, iv, days_to_expiry) == bs_d(spot, strike, iv, days_to_expiry, -1)

\* black_scholes_prob(spot, strike, iv, days_to_expiry, direction)
black_scholes_prob(spot, strike, iv, days_to_expiry, direction) ==
    IF spot <= 0 \/ strike <= 0 \/ iv <= 0
    THEN [true_probability |-> Million \div 2, model |-> "Invalid inputs"]
    ELSE LET prob_above == norm_cdf(bs_d2(spot, strike, iv, days_to_expiry))
             prob_below == Million - prob_above
         IN  [d1 |-> bs_d1(spot, strike, iv, days_to_expiry),
              d2 |-> bs_d2(spot, strike, iv, days_to_expiry),
              prob_above |-> prob_above, prob_below |-> prob_below,
              true_probability |-> IF direction = "above" THEN prob_above ELSE prob_below,
              model |-> "Black-Scholes"]

\* inputs of black_scholes_prob
BSPrices == {0, 200, 250, 300}
BSVols == {0, 1, 10, 50, 100, 200, 300, 500, 1000}
BSDays == {1, 7, 30, 365}
BSDirections == {"above", "below"}

Calc_black_scholes_prob ==
    /\ calc = NoCalc
    /\ \E spot \in BSPrices, strike \in BSPrices, iv \in BSVols, days \in BSDays,
          direction \in BSDirections :
          calc' = [fn |-> "black_scholes_prob", spot |-> spot, strike |-> strike,
                   iv |-> iv, days_to_expiry |-> days, direction |-> direction,
                   res |-> black_scholes_prob(spot, strike, iv, days, direction)]
    /\ UNCHANGED <<files, pc, call, L, rd, committed>>

\* timedelta.seconds of a difference of d seconds: the seconds left over after the
\* whole days (timedelta keeps days, seconds and microseconds apart)
timedelta_seconds(d) == d % 86400

\* set_cached at time now: the value and its time stamp
set_cached(cache, key, value, now) ==
    [k \in DOMAIN cache \cup {key} |->
        IF k = key THEN [value |-> value, at |-> now] ELSE cache[k]]

\* get_cached at time now
get_cached(cache, key, now, ttl) ==
    IF key \in DOMAIN cache /\ timedelta_seconds(now - cache[key].at) < ttl
    THEN cache[key].value
    ELSE None

\* ages of a cache entry at the time of a read, in seconds, and the ttl values of the
\* callers
CacheAges == {0, 29, 30, 59, 60, 61, 3600, 86399, 86400, 86410, 86460, 172805}
CacheTtls == {30, 60, 86400}
CacheKeys == {"trending_events", "dashboard_stats"}

\* a get_cached of a key, on an empty cache or `age` seconds after a set_cached of
\* "trending_events"
Calc_get_cached ==
    /\ calc = NoCalc
    /\ \E stored \in BOOLEAN, key \in CacheKeys, age \in CacheAges, ttl \in CacheTtls,
          at \in {0, 50000} :
          LET cache == IF stored
                       THEN set_cached(EmptyDict, "trending_events", Str("events"), at)
                       ELSE EmptyDict
          IN  calc' = [fn |-> "get_cached", stored |-> stored /\ key = "trending_events",
                       key |-> key, age |-> age, ttl |-> ttl,
                       res |-> get_cached(cache, key, at + age, ttl)]
    /\ UNCHANGED <<files, pc, call, L, rd, committed>>

CalcNext ==
    \/ Calc_kelly_sizing
    \/ Calc_detect_arbitrage
    \/ Calc_strategy
    \/ Calc_trending
    \/ Calc_search_kws
    \/ Calc_get_cached
    \/ Calc_black_scholes_prob

CalcSpec == Init /\ [][CalcNext]_vars

----------------------------------------------------------------------------
(* Properties *)

\* the job's record as the store holds it now
Record == _load_job(JobId)

Running == Truthy(Record) /\ Record["status"] = Str("running")
Terminal == Truthy(Record) /\ Record["status"] \in {Str("completed"), Str("error")}

\* run_full_analysis has been launched for the job
Started == pc.s \notin {"new", "rejected", "create"}

\* C1: for one job id, the step a status poll shows is never below the step the
\* previous status poll showed, and lies in 0..total_steps, whatever the interleaving
\* of polls with the updates of run_full_analysis
C1_StepMonotone ==
    (rd.phase = "opened" /\ StatusAnswer.code = 200) =>
        /\ StatusAnswer.body.step.n \in 0..total_steps
        /\ StatusAnswer.body.step.n >= rd.seen

\* a poll that shows a later step than the previous one, while an update is being written
C1_Witness ==
    /\ rd.phase = "opened" /\ StatusAnswer.code = 200
    /\ rd.seen = 3 /\ StatusAnswer.body.step.n = 6
    /\ call.phase = "write"

\* C2: every started job eventually has status completed or error
C2_Terminates == Started ~> Terminal

\* a started job that ended in the exception handler
C2_Witness == pc.s = "done" /\ L.exc # Unset /\ Terminal

\* C3: once the record has status completed or error, no later write changes it
C3_TerminalIsFinal == [][Terminal => Record' = Record]_vars

\* a completed job whose thread has returned
C3_Witness == pc.s = "done" /\ Truthy(Record) /\ Record["status"] = Str("completed")

\* C4: a read that overlaps an update returns the whole record of before the update
\* or the whole record of after it
C4_ReadIsOldOrNew ==
    rd.phase = "opened" => Loaded \in {rd.old, committed[rd.job_id]}

\* a read that began before an os.replace and ends after it, with the next update
\* already being written
C4_Witness ==
    /\ rd.phase = "opened" /\ rd.fd = "unlinked"
    /\ Loaded = rd.old /\ rd.old # committed[JobId]
    /\ call.phase = "write" /\ files[call.fd].text # <<>>

\* the fields of a record that `updates` does not name
Frame(job, updates) == DOMAIN job \ DOMAIN updates

\* C5: _update_job on a stored record sets exactly the fields of `updates` and leaves
\* every other field as it was, returning the record; on an unknown id it returns
\* None and no record appears in the store
C5_UpdateFrame ==
    [][/\ \A id \in {JobId, UnknownId} : (call.phase = "replace" /\ call.job_id = id) =>
             LET before == _load_job(id)
                 after == _load_job(id)'
             IN  /\ DOMAIN after = DOMAIN before \cup DOMAIN call.updates
                 /\ \A k \in DOMAIN call.updates : after[k] = call.updates[k]
                 /\ \A k \in Frame(before, call.updates) : after[k] = before[k]
                 /\ L'.ret = after
       /\ call.phase \in {"load", "open", "write"} =>
             \A id \in {JobId, UnknownId} : _load_job(id)' = _load_job(id)
       /\ (call.phase = "load" /\ call.job_id = UnknownId) =>
             /\ L'.ret = None
             /\ call'.phase = "idle"
       /\ ~files'[_job_path(UnknownId)].exists
      ]_vars

\* the store after a merge that kept fields the update did not name, and after a call
\* on the unknown id has returned None
C5_Witness ==
    /\ call.phase = "idle" /\ L.ret = None
    /\ Record["step"] = Num(4) /\ Record["status"] = Str("error")
    /\ Record["total_steps"] = Num(total_steps)
    /\ ~files[_job_path(UnknownId)].exists

\* C6: result is set only with status completed, error only with status error, and
\* a running record has neither, in the store and in every record a poll reads
RecordShape(job) ==
    Truthy(job) =>
        /\ job["result"] # None => job["status"] = Str("completed")
        /\ job["error"] # None => job["status"] = Str("error")
        /\ job["status"] = Str("running") => (job["result"] = None /\ job["error"] = None)

C6_ResultErrorMatchStatus == RecordShape(Record) /\ (rd.phase = "opened" => RecordShape(Loaded))

\* a stored completed record with its result and no error
C6_Witness ==
    /\ Truthy(Record) /\ Record["status"] = Str("completed")
    /\ Record["result"] # None /\ Record["error"] = None

\* C7: when fetch_polymarket_event returns nothing the job ends in error with a
\* message, no later step runs (step stays 1) and result stays null
C7_NotFoundIsFatal ==
    L.event = None =>
        /\ pc.s \in {"notfound", "done"}
        /\ Record["step"] = Num(1)
        /\ Record["result"] = None
        /\ pc.s = "done" => (/\ Record["status"] = Str("error")
                             /\ Record["error"] = Str("Event not found"))

\* the thread has returned after the event was not found
C7_Witness == L.event = None /\ pc.s = "done"

\* C8 (as claimed): a job whose event was found ends completed; only the failed
\* event fetch ends a job in error
C8_OnlyStep1Fatal ==
    pc.s = "done" => (Record["status"] = Str("error") <=> L.event = None)

\* a soft step whose collector or report generator failed
SoftFailure ==
    \/ L.stock = None /\ L.ticker # None /\ L.ticker # Unset /\ L.has_strikes
    \/ L.sports_odds # Unset /\ "error" \in DOMAIN L.sports_odds
    \/ L.kalshi_data # Unset /\ (\/ "error" \in DOMAIN L.kalshi_data
                                 \/ ~L.kalshi_data.matching_markets_found)
    \/ L.whale_data # Unset /\ "error" \in DOMAIN L.whale_data
    \/ L.orderbook_data # Unset /\ \E key \in DOMAIN L.orderbook_data :
           \/ "yes" \notin DOMAIN L.orderbook_data[key]
           \/ "error" \in DOMAIN L.orderbook_data[key]["yes"]
    \/ L.exc # Unset /\ L.exc.step = 7
    \/ L.claude_report = report_of("exception")

\* C9 (as claimed): after a soft step failed the later steps still run and the job
\* completes, its result holding the sub-object of every soft step
C9_SoftFailuresComplete ==
    (pc.s = "done" /\ SoftFailure) =>
        /\ Record["status"] = Str("completed")
        /\ Record["step"] = Num(10)
        /\ {"stock_data", "sports_odds", "kalshi_comparison", "whale_tracking",
            "orderbook_depth", "claude_report"} \subseteq DOMAIN Record["result"].d

AnalysisBuilt == Started /\ pc.s \in {"work", "update", "final"} /\ pc.k >= 4

\* C18: the analysis list of step 3 has one object per market, in market order; no later
\* step changes it, and the result stored at step 10 carries it whole, in the same order
C18_AnalysisCarriedThrough ==
    [][/\ AnalysisBuilt' =>
              /\ Len(L'.all_analysis) = Len(L'.event.markets)
              /\ \A i \in 1..Len(L'.all_analysis) :
                    L'.all_analysis[i].question = L'.event.markets[i].question
       /\ AnalysisBuilt => L'.all_analysis = L.all_analysis
       /\ (Truthy(Record') /\ Record'["status"] = Str("completed")) =>
              Record'["result"].d.strike_analysis = L'.all_analysis]_vars

\* a completed job of an event with several markets: all analyses are in the result
C18_Witness ==
    /\ Truthy(Record) /\ Record["status"] = Str("completed")
    /\ Len(L.all_analysis) > 1
    /\ Len(Record["result"].d.strike_analysis) = Len(L.all_analysis)

\* price and probability of one side of a kelly_sizing call
SidePrice(side, poly_price) == IF side = "YES" THEN poly_price ELSE One - poly_price
SideProb(side, true_prob) == IF side = "YES" THEN true_prob ELSE One - true_prob

\* C11 (as claimed): for a side price in (0,1), a side probability > 0 and a bankroll
\* > 0, bet_amount lies in [5, 0.35 x bankroll] and position_pct x bankroll / 100
\* gives bet_amount back within the rounding of position_pct
C11_BetWithinBounds ==
    (calc.fn = "kelly_sizing" /\ calc.bankroll > 0) =>
        \A side \in {"YES", "NO"} :
            LET k == calc.res[side]
                price == SidePrice(side, calc.poly_price)
                p == SideProb(side, calc.true_prob)
            IN  (price > 0 /\ price < One /\ p > 0) =>
                    /\ 500 <= k.bet_amount
                    /\ k.bet_amount <= 35 * calc.bankroll
                    /\ 2 * Abs(k.position_pct * calc.bankroll - 100 * k.bet_amount)
                           <= calc.bankroll

\* C12: each side of kelly_sizing on its own: a side price <= 0 or >= 1 or a side
\* probability <= 0 gives the sentinel (bet_amount 0, position_pct 0, reason "Invalid",
\* confidence "none"); any other side is sized, whatever the other side is
C12_DegenerateSideIsSentinel ==
    calc.fn = "kelly_sizing" =>
        \A side \in {"YES", "NO"} :
            LET k == calc.res[side]
                price == SidePrice(side, calc.poly_price)
                p == SideProb(side, calc.true_prob)
            IN  IF price <= 0 \/ price >= One \/ p <= 0
                THEN /\ "reason" \in DOMAIN k /\ k.reason = "Invalid"
                     /\ k.bet_amount = 0 /\ k.position_pct = 0
                     /\ k.confidence = "none"
                ELSE /\ "reason" \notin DOMAIN k
                     /\ k.price = price /\ k.true_prob = p
                     /\ k.bet_amount > 0
                     /\ k.confidence \in {"low", "medium", "high"}

\* a call whose YES side is degenerate and whose NO side is sized
C12_Witness ==
    /\ calc.fn = "kelly_sizing"
    /\ "reason" \in DOMAIN calc.res["YES"]
    /\ "reason" \notin DOMAIN calc.res["NO"] /\ calc.res["NO"].bet_amount > 0

\* the sizing result of the pair the strategy names, if it names one
WinnerSizing ==
    {calc.all_analysis[i].kelly[calc.res.best_side.s] :
        i \in {n \in 1..Len(calc.all_analysis) :
                  calc.res.best_market = Str(calc.all_analysis[n].question)}}

\* C13 (as claimed): with a bankroll > 0 and some market side priced in (0,1), the
\* selected pair has bet_amount > 0; one market at 0.83 with bankroll 1000 gives YES
\* with a non-zero position
C13_WinnerHasBet ==
    (/\ calc.fn = "strategy" /\ calc.budget > 0
     /\ \E i \in 1..Len(calc.all_analysis), side \in {"YES", "NO"} :
           LET price == SidePrice(side, calc.all_analysis[i].polymarket.yes_price)
           IN  price > 0 /\ price < One) =>
        /\ calc.res.best_market # None
        /\ \A k \in WinnerSizing : k.bet_amount > 0
        /\ (/\ Len(calc.all_analysis) = 1 /\ calc.budget = 1000
            /\ calc.all_analysis[1].polymarket.yes_price = 830) =>
               (calc.res.best_side = Str("YES") /\ calc.res.recommended_position > 0)

\* C14 (as claimed): when every side of every market is Invalid, or there is no market,
\* the strategy has best_market and best_side null and recommended_position 0
C14_NoUsableSideNoWinner ==
    (/\ calc.fn = "strategy"
     /\ \A i \in 1..Len(calc.all_analysis), side \in {"YES", "NO"} :
           "reason" \in DOMAIN calc.all_analysis[i].kelly[side]) =>
        /\ calc.res.best_market = None
        /\ calc.res.best_side = None
        /\ calc.res.recommended_position = 0

\* the pairs the strategy's best_market and best_side name
WinnerPairs ==
    {j \in 1..(2 * Len(calc.all_analysis)) :
        /\ calc.res.best_market = Str(calc.all_analysis[pair_market(j)].question)
        /\ calc.res.best_side = Str(pair_side(j))}

\* C15: the selected pair has the maximum total score of all pairs, and every pair
\* before it in iteration order (market order, YES before NO) has a smaller score
C15_WinnerIsFirstMaximum ==
    calc.fn = "strategy" =>
        IF Len(calc.all_analysis) = 0
        THEN calc.res.best_market = None
        ELSE /\ WinnerPairs # {}
             /\ \A j \in WinnerPairs, i \in 1..(2 * Len(calc.all_analysis)) :
                   LET sj == pair_score(calc.all_analysis, calc.budget, j)
                       si == pair_score(calc.all_analysis, calc.budget, i)
                   IN  si <= sj /\ (i < j => si < sj)

\* two markets whose four pairs all reach the maximum: the first market's YES is selected
C15_Witness ==
    /\ calc.fn = "strategy" /\ Len(calc.all_analysis) = 2
    /\ \A i \in 1..4 : pair_score(calc.all_analysis, calc.budget, i)
                          = pair_score(calc.all_analysis, calc.budget, 1)
    /\ WinnerPairs = {1}

\* C16: the verdict of detect_arbitrage depends on (price, probability) only, through
\* edge = |price - probability|: ARBITRAGE from 0.08, FAIR below 0.02, between them
\* CHEAP if price < probability, else EXPENSIVE; (0.50, 0.50) is FAIR and (0.10, 0.50)
\* ARBITRAGE
C16_Verdict ==
    calc.fn = "detect_arbitrage" =>
        LET edge == Abs(calc.poly_price - calc.true_prob)
        IN  /\ edge >= 80 => calc.res.verdict = "ARBITRAGE"
            /\ edge < 20 => calc.res.verdict = "FAIR"
            /\ (20 <= edge /\ edge < 80) =>
                  calc.res.verdict = (IF calc.poly_price < calc.true_prob THEN "CHEAP"
                                      ELSE "EXPENSIVE")
            /\ (calc.poly_price = 500 /\ calc.true_prob = 500) => calc.res.verdict = "FAIR"
            /\ (calc.poly_price = 100 /\ calc.true_prob = 500) =>
                  calc.res.verdict = "ARBITRAGE"

\* an edge of exactly 0.02 with the price below the probability: CHEAP
C16_Witness ==
    /\ calc.fn = "detect_arbitrage"
    /\ calc.true_prob - calc.poly_price = 20
    /\ calc.res.verdict = "CHEAP"

\* C17: the recommendation is PASS below an edge of 0.01, else BUY YES if price <
\* probability and BUY NO if price > probability; so PASS comes only with FAIR, CHEAP
\* only with BUY YES, EXPENSIVE only with BUY NO, and ARBITRAGE never with PASS
C17_Recommendation ==
    calc.fn = "detect_arbitrage" =>
        LET edge == Abs(calc.poly_price - calc.true_prob)
            rec == calc.res.recommendation
            verdict == calc.res.verdict
        IN  /\ edge < 10 => rec = "PASS"
            /\ (edge >= 10 /\ calc.poly_price < calc.true_prob) => rec = "BUY YES"
            /\ (edge >= 10 /\ calc.poly_price > calc.true_prob) => rec = "BUY NO"
            /\ rec = "PASS" => verdict = "FAIR"
            /\ verdict = "CHEAP" => rec = "BUY YES"
            /\ verdict = "EXPENSIVE" => rec = "BUY NO"
            /\ verdict = "ARBITRAGE" => rec # "PASS"

\* an edge between 0.01 and 0.02: verdict FAIR, yet a side is recommended
C17_Witness ==
    /\ calc.fn = "detect_arbitrage"
    /\ calc.res.verdict = "FAIR" /\ calc.res.recommendation = "BUY YES"

\* C19 (as claimed): a market at yes_price 0.5 with zero volume, 24h volume, liquidity,
\* spread and price change scores 20 (the flat uncertainty term alone) and is COOL
C19_FlatMarketScores20 ==
    (/\ calc.fn = "trending" /\ calc.yes_price = 500
     /\ calc.volume = 0 /\ calc.volume_24h = 0 /\ calc.liquidity = 0
     /\ calc.spread = 0 /\ calc.price_change = 0) =>
        calc.score = 200 /\ calc.verdict = "COOL"

\* C19 (amended): that market scores 31.7, the flat uncertainty term 20 plus the
\* ROI-potential term min(100 / 300, 1) x 35 = 11.67, and is COOL
C19_FlatMarketScore ==
    (/\ calc.fn = "trending" /\ calc.yes_price = 500
     /\ calc.volume = 0 /\ calc.volume_24h = 0 /\ calc.liquidity = 0
     /\ calc.spread = 0 /\ calc.price_change = 0) =>
        calc.score = 317 /\ calc.verdict = "COOL"

\* the market of the claim has been scored
C19_Witness ==
    /\ calc.fn = "trending" /\ calc.yes_price = 500
    /\ calc.volume = 0 /\ calc.volume_24h = 0 /\ calc.liquidity = 0
    /\ calc.spread = 0 /\ calc.price_change = 0
    /\ calc.score > 0

\* C20 (as claimed): the keyword list of step 5 has at most 5 keywords, none of them a
\* stop-word, and starts with the ticker when the title has one
C20_KeywordList ==
    calc.fn = "search_kws" =>
        /\ Len(calc.res) <= 5
        /\ \A i \in 1..Len(calc.res) : lower(calc.res[i]) \notin skip_words
        /\ calc.ticker # None => (calc.res # <<>> /\ calc.res[1] = calc.ticker.s)

\* C21: a market is tagged "Black-Scholes" only with a strike > 0 and a quote with spot
\* > 0 from step 2, itself made only with a ticker and some strike; any other market is
\* tagged "Market-Implied" and has its yes_price as probability, 0.5 for a yes_price of 0
C21_ModelTag ==
    \A i \in 1..Len(L.all_analysis) :
        LET a == L.all_analysis[i]
            m == L.event.markets[i]
        IN  /\ a.black_scholes.model \in {"Black-Scholes", "Market-Implied"}
            /\ a.black_scholes.model = "Black-Scholes" =>
                  /\ m.strike > 0 /\ L.spot > 0
                  /\ L.stock # None /\ L.spot = L.stock.spot_price
                  /\ L.ticker # None /\ L.has_strikes
                  /\ a.black_scholes.true_probability \in BSProbs
            /\ a.black_scholes.model = "Market-Implied" =>
                  /\ ~(m.strike > 0 /\ L.spot > 0)
                  /\ a.black_scholes.true_probability =
                        (IF m.yes_price = 0 THEN One \div 2 ELSE m.yes_price)
            /\ a.arbitrage.true_probability = a.black_scholes.true_probability

\* an event with a quote: its market without a strike is market-implied, the one with a
\* strike is model-based
C21_Witness ==
    /\ Len(L.all_analysis) = 3 /\ L.spot > 0
    /\ L.all_analysis[1].black_scholes.model = "Market-Implied"
    /\ L.all_analysis[2].black_scholes.model = "Black-Scholes"

\* C22 (as claimed): whenever the selector has a winner, recommended_position is
\* greater than 0: the selected side's bet_amount, or 5% of the bankroll when that
\* bet_amount is <= 0
C22_PositionWithWinner ==
    (calc.fn = "strategy" /\ calc.res.best_market # None) =>
        /\ calc.res.recommended_position > 0
        /\ \A k \in WinnerSizing :
              calc.res.recommended_position =
                 (IF k.bet_amount <= 0 THEN 5 * calc.budget ELSE k.bet_amount)

\* C30 (as claimed): with a winner and a bankroll > 0, position_pct is
\* recommended_position / bankroll x 100 within rounding, max_loss is
\* recommended_position and confidence is not "none", the 5% fallback included
C30_StrategyConsistent ==
    (calc.fn = "strategy" /\ calc.res.best_market # None /\ calc.budget > 0) =>
        /\ 2 * Abs(calc.res.position_pct * calc.budget
                   - 100 * calc.res.recommended_position) <= calc.budget
        /\ calc.res.max_loss = calc.res.recommended_position
        /\ calc.res.confidence # "none"

\* a side of the kelly_sizing call is sized without a Kelly signal: it is not
\* degenerate and its full Kelly fraction (p - price) / (1 - price) is <= 0.001
OnLadder(side) ==
    LET price == SidePrice(side, calc.poly_price)
        p == SideProb(side, calc.true_prob)
    IN  /\ price > 0 /\ price < One /\ p > 0
        /\ (p - price) * 1000 <= One - price

CallEdge == Abs(calc.poly_price - calc.true_prob)

\* the table of the claim, in 1/100000 of the bankroll
Ladder(price) ==
    IF price >= 800 THEN 20000 ELSE IF price >= 650 THEN 15000
    ELSE IF price >= 500 THEN 12000 ELSE IF price >= 300 THEN 8000
    ELSE IF price >= 100 THEN 5000 ELSE 2000

\* the bet a position fraction gives: rounded to cents, then max(5, min(bet, 35%))
BetOf(bankroll, fraction) ==
    LET bet == RoundDiv(bankroll * fraction, 1000)
    IN  IF bet > 35 * bankroll
        THEN (IF 35 * bankroll < 500 THEN 500 ELSE 35 * bankroll)
        ELSE (IF bet < 500 THEN 500 ELSE bet)

BetOfFraction(fraction) == BetOf(calc.bankroll, fraction)

\* C23 (as claimed): without a Kelly signal the position fraction is the table value of
\* the side price, x 1.3 capped at 30% for 0.05 <= edge < 0.10, and x 1.5 capped at 35%
\* with confidence "high" for edge >= 0.10
C23_LadderOneBoost ==
    calc.fn = "kelly_sizing" =>
        \A side \in {"YES", "NO"} :
            OnLadder(side) =>
                LET base == Ladder(SidePrice(side, calc.poly_price))
                    fraction == IF CallEdge >= 100 THEN Min((base * 3) \div 2, 35000)
                                ELSE IF CallEdge >= 50 THEN Min((base * 13) \div 10, 30000)
                                ELSE base
                IN  /\ calc.res[side].bet_amount = BetOfFraction(fraction)
                    /\ CallEdge >= 100 => calc.res[side].confidence = "high"

\* C23 (amended): the table value is x 1.3 capped at 30% for every edge >= 0.05, and
\* the result of that is x 1.5 capped at 35%, with confidence "high", for edge >= 0.10
C23_LadderBothBoosts ==
    calc.fn = "kelly_sizing" =>
        \A side \in {"YES", "NO"} :
            OnLadder(side) =>
                LET base == Ladder(SidePrice(side, calc.poly_price))
                    first == IF CallEdge >= 50 THEN Min((base * 13) \div 10, 30000)
                             ELSE base
                    fraction == IF CallEdge >= 100 THEN Min((first * 3) \div 2, 35000)
                                ELSE first
                IN  /\ calc.res[side].bet_amount = BetOfFraction(fraction)
                    /\ CallEdge >= 100 => calc.res[side].confidence = "high"

\* a side sized from the table with both boosts and no clamp: 5% x 1.3 x 1.5 = 9.75%
C23_Witness ==
    /\ calc.fn = "kelly_sizing" /\ calc.bankroll = 1000
    /\ \E side \in {"YES", "NO"} :
          /\ OnLadder(side) /\ CallEdge >= 100
          /\ calc.res[side].bet_amount = 9750

\* C28: a side sized without a Kelly signal that gets an edge boost (edge >= 0.05) has
\* a negative ev_per_dollar (and a full Kelly fraction of 0)
C28_BoostOnlyOverpriced ==
    calc.fn = "kelly_sizing" =>
        \A side \in {"YES", "NO"} :
            (OnLadder(side) /\ CallEdge >= 50) =>
                /\ calc.res[side].ev_per_dollar < 0
                /\ calc.res[side].full_kelly_pct = 0

\* a boosted side: its bet is above the bet of the table value alone
C28_Witness ==
    /\ calc.fn = "kelly_sizing"
    /\ \E side \in {"YES", "NO"} :
          /\ OnLadder(side) /\ CallEdge >= 50
          /\ calc.res[side].bet_amount >
                BetOfFraction(Ladder(SidePrice(side, calc.poly_price)))

\* C29: a market-implied market with yes_price in (0,1) has edge 0, verdict FAIR,
\* recommendation PASS and, on both sides, a full Kelly fraction of 0, ev_per_dollar 0
\* and the bet of the table value of the side price without a boost
C29_MarketImpliedIsNeutral ==
    \A i \in 1..Len(L.all_analysis) :
        LET a == L.all_analysis[i]
            yes == a.polymarket.yes_price
        IN  (a.black_scholes.model = "Market-Implied" /\ yes > 0 /\ yes < One) =>
                /\ a.arbitrage.edge_absolute = 0
                /\ a.arbitrage.verdict = "FAIR"
                /\ a.arbitrage.recommendation = "PASS"
                /\ \A side \in {"YES", "NO"} :
                      LET k == a.kelly[side]
                      IN  /\ "reason" \notin DOMAIN k
                          /\ k.full_kelly_pct = 0
                          /\ k.ev_per_dollar = 0
                          /\ k.bet_amount = BetOf(L.budget.n, Ladder(SidePrice(side, yes)))

\* the market at 0.83 without a strike: YES gets 20% of the bankroll, NO 5%
C29_Witness ==
    \E i \in 1..Len(L.all_analysis) :
        LET a == L.all_analysis[i]
        IN  /\ a.black_scholes.model = "Market-Implied"
            /\ a.polymarket.yes_price = 830
            /\ a.kelly["YES"].bet_amount = 20 * L.budget.n
            /\ a.kelly["NO"].bet_amount = 5 * L.budget.n

\* step and step_label of a record agree
LabelAgrees(job) ==
    Truthy(job) =>
        /\ job["step"].n \in 0..total_steps
        /\ job["total_steps"] = Num(total_steps)
        /\ job["step"] = Num(0) =>
              (job["step_label"] = Str("Starting...") /\ job["status"] = Str("running"))
        /\ (job["status"] = Str("running") /\ job["step"].n >= 1) =>
              job["step_label"] = Str(PIPELINE_STEPS[job["step"].n])
        /\ job["status"] = Str("completed") =>
              (job["step"] = Num(total_steps)
               /\ job["step_label"] = Str("Analysis complete!"))
        /\ job["step"].n >= 1 =>
              job["step_label"] \in {Str(PIPELINE_STEPS[job["step"].n]),
                                     Str("Analysis complete!")}

\* C26: in the stored record and in every record a poll reads, step 0 goes with
\* "Starting...", a running step k >= 1 with the k-th label of PIPELINE_STEPS, and
\* completed with step = total_steps = 10 and "Analysis complete!"
C26_StepLabelAgree ==
    /\ LabelAgrees(Record)
    /\ rd.phase = "opened" => LabelAgrees(Loaded)

\* a poll that reads the record of step 7 while the update of step 8 is being written
C26_Witness ==
    /\ rd.phase = "opened" /\ Truthy(Loaded)
    /\ Loaded["step"] = Num(7)
    /\ Loaded["step_label"] = Str("Fetching CLOB orderbook depth...")
    /\ call.phase = "write" /\ call.updates = StepUpdate(8)

\* C27: once api_analyze has stored the record, every poll that begins finds a
\* record, and every _update_job of run_full_analysis loads the record, merges its
\* fields and stores them; the thread returns only with a terminal record stored
C27_RecordAlwaysFound ==
    [][/\ (rd'.phase = "opened" /\ rd'.job_id = JobId /\ rd'.old # None) =>
             /\ Truthy(Loaded')
             /\ api_analyze_status(Loaded').code = 200
       /\ (call.phase = "load" /\ call' # call) =>
             /\ call'.phase = "open"
             /\ \A k \in DOMAIN call.updates : call'.data[k] = call.updates[k]
       /\ (call.phase = "replace" /\ call' # call) =>
             /\ Record' = call.data
             /\ call.updates # None => L'.ret = call.data
       /\ (pc.s # "done" /\ pc'.s = "done") => Terminal'
      ]_vars

\* a poll that finds the record while the terminal update is being stored
C27_Witness ==
    /\ rd.phase = "opened" /\ rd.job_id = JobId /\ Truthy(Loaded)
    /\ call.phase = "replace" /\ "status" \in DOMAIN call.updates
    /\ call.updates["status"] = Str("completed")

\* C25 (as claimed): get_cached returns a value only if set_cached stored it less than
\* ttl seconds earlier, and None for every age >= ttl, ages of a day or more included
C25_CacheExpires ==
    calc.fn = "get_cached" =>
        /\ calc.res # None => (calc.stored /\ calc.age < calc.ttl)
        /\ calc.age >= calc.ttl => calc.res = None

\* the call recorded in calc is black_scholes_prob on valid inputs
BSValidCall ==
    /\ calc.fn = "black_scholes_prob"
    /\ calc.spot > 0 /\ calc.strike > 0 /\ calc.iv > 0 /\ calc.days_to_expiry > 0

\* the probability returned for the recorded call with the volatility replaced by iv
BSProbAt(iv) ==
    black_scholes_prob(calc.spot, calc.strike, iv, calc.days_to_expiry,
                       calc.direction).true_probability

\* the distance of the recorded call's probability, with volatility iv, from target
BSDistance(iv, target) == Abs(BSProbAt(iv) - target)

====
